---------------------------- MODULE Spec2Model ----------------------------
(***************************************************************************)
(* A model of the PDF invoice reader: the /ingest endpoint and             *)
(* InvoiceProcessor (src/app), and the /api/invoices/process-pdf endpoint  *)
(* with its validator, PDFReader, TemplateSelector and                     *)
(* ConfidenceCalculator (src/backend).                                     *)
(*                                                                         *)
(* Texts are sequences of one-character strings.  Python indices are       *)
(* 0-based and half-open; the model uses 1-based positions and closed      *)
(* spans [start |-> first position, end |-> last position].                *)
(***************************************************************************)
EXTENDS Integers, Sequences, FiniteSets, TLC

VARIABLES
    \* POST /ingest (src/app/main.py)
    files,          \* the uploads of the request, in order
    params,         \* ProcessingParams built from the query
    pytesseract,    \* TRUE when the pytesseract import succeeded
    results,        \* the results list of the handler
    calls,          \* the uploads handed to process_invoice so far, in order
    response,       \* the HTTP response, status 0 while the handler runs
    pc,             \* where the handler is: "recv", "loop", "done"
    \* one call of InvoiceProcessor.process_invoice
    doc,            \* the document behind file_bytes
    outcome,        \* what the call returned or raised
    \* POST /api/invoices/process-pdf (src/backend/api)
    request,        \* files, asesoria, forzarOCR, opciones and the config
    pdf_response,   \* the HTTP response, status 0 before the handler ran
    \* PDFReader.read
    reader,         \* force_ocr, the files on disk, the installed packages
    read_out,       \* what read returned or raised, and its OCR calls
    \* ConfidenceCalculator.calculate_confidence
    extracted,      \* the mapping handed in
    confidence,     \* the value returned
    \* TemplateSelector.select_template
    templates,      \* the vendor directory, the default template, the file name
    selections,     \* what each call returned, in call order
    \* InvoiceProcessor._redact_pii
    text,           \* the text handed in
    redacted_text,  \* the text returned
    entities,       \* the entities returned
    matches,        \* the match objects the entities were built from
    again,          \* what a second call, on redacted_text, returned
    pii_phase,      \* "idle", "input", "once", "twice"
    \* ProcessingService.process
    processed,      \* what the call returned or raised
    \* InvoiceProcessor._extract_fields
    field_text,     \* the text handed in
    inferred        \* the field mapping returned

ingestVars == << files, params, pytesseract, results, calls, response, pc >>

invoiceVars == << doc, outcome >>

pdfVars == << request, pdf_response >>

readerVars == << reader, read_out >>

confVars == << extracted, confidence >>

tplVars == << templates, selections >>

piiVars == << text, redacted_text, entities, matches, again, pii_phase >>

coreVars == << processed >>

fieldVars == << field_text, inferred >>

vars == << ingestVars, invoiceVars, pdfVars, readerVars, confVars, tplVars, piiVars,
           coreVars, fieldVars >>

\* None of Python, where the value is otherwise a string
None == "None"

(***************************************************************************)
(* Characters and the classes the regular expressions use.                 *)
(***************************************************************************)
UpperSeq ==
    << "A","B","C","D","E","F","G","H","I","J","K","L","M",
       "N","O","P","Q","R","S","T","U","V","W","X","Y","Z" >>

LowerSeq ==
    << "a","b","c","d","e","f","g","h","i","j","k","l","m",
       "n","o","p","q","r","s","t","u","v","w","x","y","z" >>

Range(f) == { f[i] : i \in DOMAIN f }

UpperChars == Range(UpperSeq)

LowerChars == Range(LowerSeq)

DigitChars == { "0","1","2","3","4","5","6","7","8","9" }

\* \s of the re module and the characters str.strip() removes
SpaceChars == { " ", "\t", "\n", "\r", "\f" }

\* \w : letters, digits and the underscore
WordChars == UpperChars \cup LowerChars \cup DigitChars \cup { "_" }

\* the character classes of the patterns, by name
InClass(c, cls) ==
    CASE cls = "word_dot"    -> c \in WordChars \cup { "." }
      [] cls = "word"        -> c \in WordChars
      [] cls = "space"       -> c \in SpaceChars
      [] cls = "colon_space" -> c \in SpaceChars \cup { ":" }
      [] cls = "invoice_sep" -> c \in SpaceChars \cup { ":", "#", "-" }
      [] cls = "invoice_id"  -> c \in UpperChars \cup LowerChars \cup DigitChars \cup { "/", ".", "-" }
      [] cls = "decimal_sep" -> c \in { ",", "." }
      [] cls = "date_sep"    -> c \in { "/", "-" }
      [] cls = "percent"     -> c = "%"
      [] cls = "amount"      -> c \in DigitChars \cup { ",", "." }
      [] cls = "digit"       -> c \in DigitChars
      [] cls = "digit_space" -> c \in DigitChars \cup SpaceChars
      [] cls = "alpha"       -> c \in UpperChars \cup LowerChars
      [] cls = "alnum"       -> c \in UpperChars \cup LowerChars \cup DigitChars
      [] OTHER               -> FALSE

\* str.lower() on one character
LowerChar(c) ==
    IF c \in UpperChars
    THEN LowerSeq[CHOOSE i \in DOMAIN UpperSeq : UpperSeq[i] = c]
    ELSE c

\* str.lower()
Lower(s) == [ i \in DOMAIN s |-> LowerChar(s[i]) ]

(***************************************************************************)
(* String helpers: the str methods the code calls.                         *)
(***************************************************************************)
\* s[i-1:j] of Python, 1-based and closed, empty when j < i
Slice(s, i, j) == IF j < i THEN << >> ELSE SubSeq(s, i, j)

\* str.startswith
StartsWith(s, prefix) ==
    /\ Len(prefix) <= Len(s)
    /\ Slice(s, 1, Len(prefix)) = prefix

\* str.endswith
EndsWith(s, suffix) ==
    /\ Len(suffix) <= Len(s)
    /\ Slice(s, Len(s) - Len(suffix) + 1, Len(s)) = suffix

\* does sub occur in s at position i
OccursAt(s, sub, i) ==
    /\ i >= 1
    /\ i + Len(sub) - 1 <= Len(s)
    /\ Slice(s, i, i + Len(sub) - 1) = sub

\* "sub in s"
Contains(s, sub) == \E i \in 1..(Len(s) + 1) : OccursAt(s, sub, i)

RECURSIVE LStripFrom(_, _)
LStripFrom(s, i) ==
    IF i > Len(s) THEN i
    ELSE IF s[i] \in SpaceChars THEN LStripFrom(s, i + 1) ELSE i

RECURSIVE RStripFrom(_, _)
RStripFrom(s, j) ==
    IF j < 1 THEN j
    ELSE IF s[j] \in SpaceChars THEN RStripFrom(s, j - 1) ELSE j

\* str.strip(): removes leading and trailing whitespace
Strip(s) == Slice(s, LStripFrom(s, 1), RStripFrom(s, Len(s)))

\* F(e) with e evaluated once, like a local variable assigned before use
Bind(e, F(_)) == CHOOSE r \in { F(x) : x \in { e } } : TRUE

\* the least element of a non-empty set of positions
MinOf(S) == Bind(S, LAMBDA T : CHOOSE x \in T : \A y \in T : x <= y)

RECURSIVE ReplaceFrom(_, _, _, _)
\* the scan of str.replace from position i: copy up to the next occurrence
\* of old, emit new, resume right after the occurrence
ReplaceFrom(s, old, new, i) ==
    Bind({ k \in i..Len(s) : OccursAt(s, old, k) }, LAMBDA occ :
        IF occ = {} THEN Slice(s, i, Len(s))
        ELSE Bind(MinOf(occ), LAMBDA k :
                 Slice(s, i, k - 1) \o new \o ReplaceFrom(s, old, new, k + Len(old))))

\* str.replace(old, new) with a non-empty old: every non-overlapping
\* occurrence, left to right
StrReplace(s, old, new) ==
    Bind(<< s, old >>, LAMBDA a : ReplaceFrom(a[1], a[2], new, 1))

RECURSIVE JoinFrom(_, _, _)
JoinFrom(sep, parts, i) ==
    IF i > Len(parts) THEN << >>
    ELSE IF i = Len(parts) THEN parts[i]
    ELSE parts[i] \o sep \o JoinFrom(sep, parts, i + 1)

\* sep.join(parts)
Join(sep, parts) == JoinFrom(sep, parts, 1)

RECURSIVE Concat(_)
Concat(parts) ==
    IF parts = << >> THEN << >> ELSE Head(parts) \o Concat(Tail(parts))


(***************************************************************************)
(* The regular expressions of _redact_pii, as re.finditer evaluates them:  *)
(* leftmost match from each scan position, greedy quantifiers, the scan    *)
(* resuming right after the previous match.                                *)
(***************************************************************************)
RECURSIVE RunEnd(_, _, _)
\* the first position >= i whose character is outside the class
RunEnd(s, i, cls) ==
    IF i > Len(s) THEN i
    ELSE IF InClass(s[i], cls) THEN RunEnd(s, i + 1, cls) ELSE i

RECURSIVE LastDigitFrom(_, _)
\* the last position <= j that holds a digit (0 when there is none)
LastDigitFrom(s, j) ==
    IF j < 1 THEN 0
    ELSE IF s[j] \in DigitChars THEN j ELSE LastDigitFrom(s, j - 1)

MaskToken == << "*", "*", "*" >>

PhoneMinMiddle == 7

IbanMaxTail == 30

\* [\w\.]+@[\w\.]+ : the last position of the match starting at i, or 0
EmailMatchAt(s, i) ==
    IF ~InClass(s[i], "word_dot") THEN 0
    ELSE LET at == RunEnd(s, i, "word_dot")
         IN  IF /\ at + 1 <= Len(s)
                /\ s[at] = "@"
                /\ InClass(s[at + 1], "word_dot")
             THEN RunEnd(s, at + 1, "word_dot") - 1
             ELSE 0

\* \+?\d[\d\s]{7,}\d : the last position of the match starting at i, or 0
PhoneMatchAt(s, i) ==
    LET b == IF s[i] = "+" THEN i + 1 ELSE i
    IN  IF b > Len(s) \/ ~InClass(s[IF b > Len(s) THEN i ELSE b], "digit") THEN 0
        ELSE LET r == RunEnd(s, b + 1, "digit_space")
                 k == LastDigitFrom(s, r - 1)
             IN  IF k >= b + 1 + PhoneMinMiddle THEN k ELSE 0

\* [A-Z]{2}\d{2}[A-Z0-9]{1,30} with re.IGNORECASE : the last position of
\* the match starting at i, or 0
IbanMatchAt(s, i) ==
    IF i + 4 > Len(s) THEN 0
    ELSE IF /\ InClass(s[i], "alpha")
            /\ InClass(s[i + 1], "alpha")
            /\ InClass(s[i + 2], "digit")
            /\ InClass(s[i + 3], "digit")
            /\ InClass(s[i + 4], "alnum")
         THEN LET r == RunEnd(s, i + 4, "alnum")
              IN  IF r - 1 > i + 3 + IbanMaxTail THEN i + 3 + IbanMaxTail ELSE r - 1
         ELSE 0

\* the insertion order of the patterns dict
PiiKinds == << "email", "phone", "iban" >>

MatchAt(s, kind, i) ==
    CASE kind = "email" -> EmailMatchAt(s, i)
      [] kind = "phone" -> PhoneMatchAt(s, i)
      [] kind = "iban"  -> IbanMatchAt(s, i)

RECURSIVE FindFrom(_, _, _)
\* the scan of finditer from position i: the leftmost position >= i where
\* the pattern matches, then the scan resumes right after that match
FindFrom(s, kind, i) ==
    Bind({ k \in i..Len(s) : MatchAt(s, kind, k) # 0 }, LAMBDA starts :
        IF starts = {} THEN << >>
        ELSE Bind(MinOf(starts), LAMBDA k :
             Bind(MatchAt(s, kind, k), LAMBDA e :
                 << [kind |-> kind, start |-> k, end |-> e] >> \o FindFrom(s, kind, e + 1))))

\* pat.finditer(text): the matches of one pattern, in text order
FindIter(s, kind) == FindFrom(s, kind, 1)

\* the match objects in the order the two nested loops visit them
AllMatches(s) ==
    FindIter(s, PiiKinds[1]) \o FindIter(s, PiiKinds[2]) \o FindIter(s, PiiKinds[3])

\* match.group(0)
Group0(s, m) == Slice(s, m.start, m.end)

\* the entity dict appended for one match
EntityOf(s, m) == [type |-> m.kind, value |-> Group0(s, m)]

RECURSIVE RedactLoopOnOriginal(_, _, _, _)
\* the loop with "redacted_text = text.replace(value, '***')": every match
\* replaces in the original text, so only the last replacement survives
RedactLoopOnOriginal(s, ms, i, redacted) ==
    IF i > Len(ms) THEN redacted
    ELSE RedactLoopOnOriginal(s, ms, i + 1, StrReplace(s, Group0(s, ms[i]), MaskToken))

RECURSIVE RedactLoop(_, _, _, _)
\* the loop body applied to the matches ms[i..]: every match replaces all
\* occurrences of its value in the text redacted so far
RedactLoop(s, ms, i, redacted) ==
    IF i > Len(ms) THEN redacted
    ELSE Bind(StrReplace(redacted, Group0(s, ms[i]), MaskToken), LAMBDA replaced :
             RedactLoop(s, ms, i + 1, replaced))

\* InvoiceProcessor._redact_pii: (redacted_text, entities)
RedactPII(text0) ==
    Bind(text0, LAMBDA s :
    Bind(AllMatches(s), LAMBDA ms :
        [ text     |-> RedactLoop(s, ms, 1, s),
          entities |-> [ i \in 1..Len(ms) |-> EntityOf(s, ms[i]) ] ]))

(***************************************************************************)
(* The parts of the state a specification does not use stay at rest.       *)
(***************************************************************************)
NoResponse == [status |-> 0]

IngestIdle ==
    /\ files = << >>
    /\ params = [ocr_force |-> FALSE]
    /\ pytesseract = FALSE
    /\ results = << >>
    /\ calls = << >>
    /\ response = NoResponse
    /\ pc = "idle"

InvoiceIdle ==
    /\ doc = [valid |-> FALSE]
    /\ outcome = [state |-> "idle"]

PdfIdle ==
    /\ request = [files |-> << >>]
    /\ pdf_response = NoResponse

ReaderIdle ==
    /\ reader = [force_ocr |-> FALSE]
    /\ read_out = [state |-> "idle"]

ConfIdle ==
    /\ extracted = << >>
    /\ confidence = [state |-> "idle"]

TplIdle ==
    /\ templates = [file_name |-> << >>]
    /\ selections = << >>

CoreIdle == processed = [state |-> "idle"]

FieldIdle ==
    /\ field_text = << >>
    /\ inferred = [state |-> "idle"]

PiiIdle ==
    /\ text = << >>
    /\ redacted_text = << >>
    /\ entities = << >>
    /\ matches = << >>
    /\ again = [text |-> << >>, entities |-> << >>]
    /\ pii_phase = "idle"

(***************************************************************************)
(* _redact_pii on its own: a text goes through the redaction, and the      *)
(* text it returns goes through it a second time.                          *)
(***************************************************************************)
MaxPieces == 5

Ones8 == [ i \in 1..8 |-> "1" ]

\* the texts are made of at most MaxPieces of these pieces
Pieces ==
    { << "A" >>, << "1" >>, << "@" >>, << " " >>, << "+" >>,
      Ones8, << "A", "A", "1", "1" >> }

PiiTexts ==
    { Concat(ps) : ps \in UNION { [1..n -> Pieces] : n \in 0..MaxPieces } }

InitRedact ==
    /\ text \in PiiTexts
    /\ redacted_text = << >>
    /\ entities = << >>
    /\ matches = << >>
    /\ again = [text |-> << >>, entities |-> << >>]
    /\ pii_phase = "input"
    /\ IngestIdle /\ InvoiceIdle /\ PdfIdle /\ ReaderIdle /\ ConfIdle /\ TplIdle /\ CoreIdle /\ FieldIdle

\* redacted_text, entities = self._redact_pii(text)
Redact ==
    /\ pii_phase = "input"
    /\ LET r == RedactPII(text)
       IN  /\ redacted_text' = r.text
           /\ entities' = r.entities
    /\ matches' = AllMatches(text)
    /\ pii_phase' = "once"
    /\ UNCHANGED << text, again >>
    /\ UNCHANGED << ingestVars, invoiceVars, pdfVars, readerVars, confVars, tplVars, coreVars, fieldVars >>

\* self._redact_pii(redacted_text)
RedactAgain ==
    /\ pii_phase = "once"
    /\ again' = RedactPII(redacted_text)
    /\ pii_phase' = "twice"
    /\ UNCHANGED << text, redacted_text, entities, matches >>
    /\ UNCHANGED << ingestVars, invoiceVars, pdfVars, readerVars, confVars, tplVars, coreVars, fieldVars >>

NextRedact == Redact \/ RedactAgain

SpecRedact == InitRedact /\ [][NextRedact]_vars

Redacted == pii_phase \in { "once", "twice" }

\* two matches share no position of the text
Disjoint(m1, m2) == m1.end < m2.start \/ m2.end < m1.start

SpansDisjoint(ms) ==
    \A i, j \in DOMAIN ms : i < j => Disjoint(ms[i], ms[j])

RECURSIVE MaskFrom(_, _, _)
\* the text from position i on with every span of ms that starts at or after
\* i replaced by one mask token, everything else copied
MaskFrom(s, ms, i) ==
    LET later == { k \in DOMAIN ms : ms[k].start >= i }
    IN  IF later = {} THEN Slice(s, i, Len(s))
        ELSE LET k == CHOOSE k \in later : \A j \in later : ms[k].start <= ms[j].start
             IN  Slice(s, i, ms[k].start - 1) \o MaskToken \o MaskFrom(s, ms, ms[k].end + 1)

\* C6: redaction is idempotent: redacting the text a redaction returned
\* returns that text unchanged and finds no entity in it.
C6_Idempotent ==
    pii_phase = "twice" =>
        /\ again.text = redacted_text
        /\ again.entities = << >>

\* C7: the redacted text is the original text with exactly the reported
\* spans replaced by one mask token each and every other character kept
\* (stated for the redactions whose reported spans do not overlap).
C7_OnlySpansMasked ==
    (Redacted /\ SpansDisjoint(matches)) =>
        redacted_text = MaskFrom(text, matches, 1)

\* C8: the spans of the reported entities are pairwise non-overlapping.
C8_SpansDisjoint ==
    Redacted => SpansDisjoint(matches)

PyValues ==
    { [t |-> "none", n |-> 0],
      [t |-> "str",  n |-> 0], [t |-> "str",  n |-> 7],
      [t |-> "int",  n |-> 0], [t |-> "int",  n |-> 5],
      [t |-> "list", n |-> 0], [t |-> "list", n |-> 2],
      [t |-> "dict", n |-> 3] }

\* bool(value): None, "", 0, [] and {} are false
Truthy(v) ==
    CASE v.t = "none" -> FALSE
      [] v.t = "int"  -> v.n # 0
      [] OTHER        -> v.n > 0

\* value is not None
NotNone(v) == v.t # "none"

\* the condition of the generator of line 22: "if value"
CountsAsFilled(v) == Truthy(v)

Float(num, den) == [num |-> num, den |-> den]

\* calculate_confidence(extracted)
CalculateConfidence(ex) ==
    LET total_fields  == Cardinality(DOMAIN ex)
        filled_fields == Cardinality({ k \in DOMAIN ex : CountsAsFilled(ex[k]) })
    IN  IF total_fields = 0 THEN Float(0, 1)
        ELSE Float(filled_fields, total_fields)

FieldNames == { "invoice_number", "total", "taxes" }

Mappings == UNION { [ks -> PyValues] : ks \in SUBSET FieldNames }

InitConfidence ==
    /\ extracted \in Mappings
    /\ confidence = [state |-> "idle"]
    /\ IngestIdle /\ InvoiceIdle /\ PdfIdle /\ ReaderIdle /\ TplIdle /\ PiiIdle /\ CoreIdle /\ FieldIdle

\* overall = self.confidence.calculate_confidence(extracted=fields_result)
Calculate ==
    /\ confidence.state = "idle"
    /\ confidence' = [state |-> "done", value |-> CalculateConfidence(extracted)]
    /\ UNCHANGED extracted
    /\ UNCHANGED << ingestVars, invoiceVars, pdfVars, readerVars, tplVars, piiVars, coreVars, fieldVars >>

NextConfidence == Calculate

SpecConfidence == InitConfidence /\ [][NextConfidence]_vars

\* C5: the confidence is the number of fields whose value is not null over
\* the number of fields, lies in [0,1], is 0.0 for the empty mapping and is
\* 1.0 when every value is non-null (an empty string, an empty list and
\* zero are non-null).
C5_NonNullRatio ==
    confidence.state = "done" =>
        LET total   == Cardinality(DOMAIN extracted)
            nonnull == Cardinality({ k \in DOMAIN extracted : NotNone(extracted[k]) })
            c       == confidence.value
        IN  /\ c.den > 0 /\ 0 <= c.num /\ c.num <= c.den
            /\ total = 0 => c.num = 0
            /\ total > 0 => c.num * total = nonnull * c.den
            /\ (total > 0 /\ nonnull = total) => c.num = c.den

(***************************************************************************)
(* TemplateSelector.select_template.  The vendor directory is a set of     *)
(* file names; os.listdir returns them in an arbitrary order, chosen anew  *)
(* by every call.                                                          *)
(***************************************************************************)
\* the position of the last "." of s, 0 when it has none
LastDot(s) ==
    LET dots == { i \in DOMAIN s : s[i] = "." }
    IN  IF dots = {} THEN 0 ELSE CHOOSE i \in dots : \A j \in dots : j <= i

\* os.path.splitext(s)[0]: the name without its extension; leading dots
\* start no extension
SplitextRoot(s) ==
    LET d == LastDot(s)
    IN  IF d = 0 \/ \A i \in 1..(d - 1) : s[i] = "." THEN s
        ELSE Slice(s, 1, d - 1)

YmlSuffixes == { << ".", "y", "m", "l" >>, << ".", "y", "a", "m", "l" >> }

\* fname.lower().endswith(('.yml', '.yaml'))
IsYamlName(fname) == \E suf \in YmlSuffixes : EndsWith(Lower(fname), suf)

\* os.path.splitext(fname)[0].lower()
BaseName(fname) == Lower(SplitextRoot(fname))

\* the test of line 30
MatchesTemplate(fname, fileName) == StartsWith(Lower(fileName), BaseName(fname))

DefaultTemplate == [dir |-> "default", fname |-> << "d", "e", "f", "a", "u", "l", "t", ".", "y", "m", "l" >>]

RECURSIVE FirstMatch(_, _, _)
\* the for loop over the listing: the first yaml file whose base name is a
\* prefix of the file name, 0 when the loop ends without one
FirstMatch(listing, fileName, i) ==
    IF i > Len(listing) THEN 0
    ELSE IF IsYamlName(listing[i]) /\ MatchesTemplate(listing[i], fileName)
         THEN i
         ELSE FirstMatch(listing, fileName, i + 1)

\* select_template(vendor, file_name), the listing being what os.listdir
\* returned (empty when the vendor has no directory)
SelectTemplate(t, listing) ==
    LET i == IF t.has_vendor_dir THEN FirstMatch(listing, t.file_name, 1) ELSE 0
    IN  IF i # 0 THEN [kind |-> "template", dir |-> "vendor", fname |-> listing[i]]
        ELSE IF t.default_exists
             THEN [kind |-> "template", dir |-> DefaultTemplate.dir, fname |-> DefaultTemplate.fname]
             ELSE [kind |-> "raised", dir |-> DefaultTemplate.dir, fname |-> DefaultTemplate.fname]

\* every order a listing of the set S can come in
Listings(S) ==
    { f \in [1..Cardinality(S) -> S] : \A i, j \in DOMAIN f : i # j => f[i] # f[j] }

TemplatePool ==
    { << "i", "n", ".", "y", "m", "l" >>,
      << "i", "n", "v", ".", "y", "a", "m", "l" >>,
      << "I", "N", "V", ".", "Y", "M", "L" >>,
      << "f", ".", "y", "m", "l" >>,
      << "i", "n", ".", "t", "x", "t" >> }

UploadNames ==
    { << "I", "n", "v", "1", ".", "p", "d", "f" >>,
      << "f", "1" >>,
      << "x", ".", "p", "d", "f" >> }

MaxCalls == 2

InitTemplate ==
    /\ templates \in [ has_vendor_dir : BOOLEAN,
                       vendor_files   : SUBSET TemplatePool,
                       default_exists : BOOLEAN,
                       file_name      : UploadNames ]
    /\ templates.has_vendor_dir \/ templates.vendor_files = {}
    /\ selections = << >>
    /\ IngestIdle /\ InvoiceIdle /\ PdfIdle /\ ReaderIdle /\ ConfIdle /\ PiiIdle /\ CoreIdle /\ FieldIdle

\* one call of select_template for the same vendor and file name
Select ==
    /\ Len(selections) < MaxCalls
    /\ \E listing \in Listings(templates.vendor_files) :
          selections' = Append(selections, SelectTemplate(templates, listing))
    /\ UNCHANGED templates
    /\ UNCHANGED << ingestVars, invoiceVars, pdfVars, readerVars, confVars, piiVars, coreVars, fieldVars >>

NextTemplate == Select

SpecTemplate == InitTemplate /\ [][NextTemplate]_vars

\* C10: for a fixed set of template files, repeated calls with the same
\* vendor and file name return the same template, whatever order the
\* directory listing comes in.
C10_Deterministic ==
    \A i, j \in DOMAIN selections : selections[i] = selections[j]

(***************************************************************************)
(* POST /api/invoices/process-pdf: process_pdf and validate_request.       *)
(* An upload is its content type (None when the part carries none); its    *)
(* file name is its position in the list.  The opciones form field is      *)
(* modelled by what json.loads makes of it.                                *)
(***************************************************************************)
PDF_MIME_WHITELIST == { "application/pdf" }

DefaultMaxFiles == 25

AsesoriaMinLen == 2

AsesoriaMaxLen == 50

\* the class [a-z0-9_\-]
AsesoriaChars == LowerChars \cup DigitChars \cup { "_", "-" }

RECURSIVE AsesoriaRun(_, _)
\* how many characters of the class s starts with, counted from i on and
\* never beyond AsesoriaMaxLen
AsesoriaRun(s, i) ==
    IF i > Len(s) \/ i > AsesoriaMaxLen THEN i - 1
    ELSE IF s[i] \in AsesoriaChars THEN AsesoriaRun(s, i + 1) ELSE i - 1

\* ASESORIA_RE.match(s) for ^[a-z0-9_\-]{2,50}$ : $ also matches before a
\* newline that ends the string
AsesoriaMatches(s) ==
    LET r == AsesoriaRun(s, 1)
    IN  /\ r >= AsesoriaMinLen
        /\ \/ r = Len(s)
           \/ r = Len(s) - 1 /\ s[Len(s)] = "\n"

\* _config_num(config, "api.max_files", 25): the configured number, the
\* default when the key is missing or no number
ConfigNum(config, default) ==
    IF ~config.has_max_files THEN default ELSE config.max_files

\* json.loads(opciones): raises on text that is no JSON, else the value
JsonLoads(op) ==
    IF op.json_valid THEN [raised |-> FALSE, value |-> op.value]
    ELSE [raised |-> TRUE, value |-> [t |-> "none", n |-> 0]]

Error(field, error) == [field |-> field, error |-> error]

\* the field of an entry: a name, and for "files[<filename>]" the position
\* of the upload (0 otherwise)
Field(name) == << name, 0 >>

FileField(i) == << "files", i >>

RECURSIVE MimeErrors(_, _)
\* the loop of lines 42-44 over the uploads i..
MimeErrors(fs, i) ==
    IF i > Len(fs) THEN << >>
    ELSE (IF fs[i] # None /\ fs[i] \notin PDF_MIME_WHITELIST
          THEN << Error(FileField(i), "Tipo no soportado") >>
          ELSE << >>) \o MimeErrors(fs, i + 1)

\* validate_request: the errors list it has built when it reaches line 56
\* (it raises HTTPException(400, detail=errors) when the list is not empty)
ValidationErrors(fs, asesoria, opciones, config) ==
    LET max_files == ConfigNum(config, DefaultMaxFiles)
    IN  (IF fs = << >> THEN << Error(Field("files"), "Debes adjuntar al menos un PDF") >> ELSE << >>)
        \o (IF fs # << >> /\ Len(fs) > max_files
            THEN << Error(Field("files"), "Demasiados archivos") >> ELSE << >>)
        \o MimeErrors(fs, 1)
        \o (IF asesoria = << >> \/ ~AsesoriaMatches(asesoria)
            THEN << Error(Field("asesoria"), "Formato invalido") >> ELSE << >>)
        \o (IF Truthy(opciones) /\ opciones.t # "dict"
            THEN << Error(Field("opciones"), "Debe ser un objeto JSON") >> ELSE << >>)

\* the parameters PDFReader.__init__ declares besides self
PDFReaderInitParams == { "force_ocr" }

\* the keywords of the call PDFReader(config=config)
PDFReaderCallKeywords == { "config" }

\* a call binds when every keyword it passes is a declared parameter;
\* otherwise Python raises TypeError
CallBinds(keywords, declared) == keywords \subseteq declared

\* the parameters PDFReader.read declares besides self
PDFReaderReadParams == { "pdf_files" }

\* the keywords of the call reader.read(pdf_bytes=, force_ocr=, filename=)
PDFReaderReadKeywords == { "pdf_bytes", "force_ocr", "filename" }

\* the parameters TemplateSelector.select_template declares besides self
SelectTemplateParams == { "vendor", "file_name" }

\* the keywords of the call select_template(asesoria=, file_name=, full_text=)
SelectTemplateKeywords == { "asesoria", "file_name", "full_text" }

\* process_pdf, the whole handler: an exception that is no HTTPException
\* leaves it as status 500
ProcessPdfResponse(req) ==
    LET loaded == IF req.opciones.present /\ req.opciones.text_nonempty
                  THEN JsonLoads(req.opciones)
                  ELSE [raised |-> FALSE, value |-> [t |-> "dict", n |-> 0]]
    IN  IF loaded.raised
        THEN [status |-> 400, detail |-> << Error(Field("opciones"), "Debe ser JSON valido") >>]
        ELSE LET errors == ValidationErrors(req.files, req.asesoria, loaded.value, req.config)
             IN  IF errors # << >> THEN [status |-> 400, detail |-> errors]
                 ELSE IF ~CallBinds(PDFReaderCallKeywords, PDFReaderInitParams)
                      THEN [status |-> 500, raised |-> "TypeError: PDFReader()"]
                 ELSE IF req.files # << >> /\ ~CallBinds(PDFReaderReadKeywords, PDFReaderReadParams)
                      THEN [status |-> 500, raised |-> "TypeError: read()"]
                 ELSE IF req.files # << >> /\ ~CallBinds(SelectTemplateKeywords, SelectTemplateParams)
                      THEN [status |-> 500, raised |-> "TypeError: select_template()"]
                 ELSE [status |-> 200,
                       results |-> [ i \in DOMAIN req.files |-> [filename |-> i] ]]

MaxUploads == 3

ContentTypes == { "application/pdf", "application/octet-stream", "text/plain", None }

Chars(c, n) == [ i \in 1..n |-> c ]

Asesorias ==
    { << >>, << "a" >>, << "a", "1" >>, << "a", "_", "-" >>, << "A", "b" >>,
      << "a", " ", "b" >>, << "a", "b", "\n" >>, << "a", "\n", "b" >>,
      Chars("a", AsesoriaMaxLen), Chars("a", AsesoriaMaxLen + 1) }

\* the opciones form field: absent, the empty string, text that is no
\* JSON, or the JSON text of a value
OpcionesForms ==
    { [present |-> FALSE, text_nonempty |-> FALSE, json_valid |-> FALSE, value |-> [t |-> "none", n |-> 0]],
      [present |-> TRUE,  text_nonempty |-> FALSE, json_valid |-> FALSE, value |-> [t |-> "none", n |-> 0]],
      [present |-> TRUE,  text_nonempty |-> TRUE,  json_valid |-> FALSE, value |-> [t |-> "none", n |-> 0]] }
    \cup { [present |-> TRUE, text_nonempty |-> TRUE, json_valid |-> TRUE, value |-> v] : v \in PyValues }

Configs ==
    { [has_max_files |-> FALSE, max_files |-> 0],
      [has_max_files |-> TRUE,  max_files |-> 1],
      [has_max_files |-> TRUE,  max_files |-> 2] }

Uploads == UNION { [1..n -> ContentTypes] : n \in 0..MaxUploads }

InitProcessPdf ==
    /\ request \in [ files : Uploads, asesoria : Asesorias, forzarOCR : BOOLEAN,
                     opciones : OpcionesForms, config : Configs ]
    /\ pdf_response = NoResponse
    /\ IngestIdle /\ InvoiceIdle /\ ReaderIdle /\ ConfIdle /\ TplIdle /\ PiiIdle /\ CoreIdle /\ FieldIdle

\* the handler runs on the request
ProcessPdf ==
    /\ pdf_response = NoResponse
    /\ pdf_response' = ProcessPdfResponse(request)
    /\ UNCHANGED request
    /\ UNCHANGED << ingestVars, invoiceVars, readerVars, confVars, tplVars, piiVars, coreVars, fieldVars >>

NextProcessPdf == ProcessPdf

SpecProcessPdf == InitProcessPdf /\ [][NextProcessPdf]_vars

\* the fields of the violations a request holds: no files, too many files,
\* each upload of a type outside the whitelist, a bad asesoria, an opciones
\* payload that is no JSON or no JSON object
ViolationFields(req) ==
    (IF req.files = << >> THEN { Field("files") } ELSE { })
    \cup (IF Len(req.files) > ConfigNum(req.config, DefaultMaxFiles) THEN { Field("files") } ELSE { })
    \cup { FileField(i) : i \in { k \in DOMAIN req.files :
                                      req.files[k] # None /\ req.files[k] \notin PDF_MIME_WHITELIST } }
    \cup (IF req.asesoria = << >> \/ ~AsesoriaMatches(req.asesoria) THEN { Field("asesoria") } ELSE { })
    \cup (IF /\ req.opciones.present /\ req.opciones.text_nonempty
             /\ \/ ~req.opciones.json_valid
                \/ Truthy(req.opciones.value) /\ req.opciones.value.t # "dict"
          THEN { Field("opciones") } ELSE { })

Handled == pdf_response # NoResponse

\* a request that holds no violation
Accepted(req) == ViolationFields(req) = { }

\* C2: a batch of N accepted files gets an array of N entries, one per
\* file and in the order of the files, whichever files fail.
C2_BatchAligned ==
    (Handled /\ Accepted(request)) =>
        /\ pdf_response.status = 200
        /\ Len(pdf_response.results) = Len(request.files)
        /\ \A i \in DOMAIN request.files : pdf_response.results[i].filename = i

\* C4: a malformed request is rejected with status 400 and a detail list
\* that names every violation the request holds.
C4_AllViolationsReported ==
    (Handled /\ ~Accepted(request)) =>
        /\ pdf_response.status = 400
        /\ \A f \in ViolationFields(request) :
              \E i \in DOMAIN pdf_response.detail : pdf_response.detail[i].field = f

(***************************************************************************)
(* ProcessingService.process: template selection, field extraction and     *)
(* the overall confidence, for one document read.                          *)
(***************************************************************************)
\* yaml.safe_load of a template file: the top-level keys of the mapping, in
\* order, and the names under its "fields" key
TemplateYaml(fname) ==
    IF fname = DefaultTemplate.fname
    THEN [keys |-> << "fields" >>, fields |-> { "total" }]
    ELSE [keys |-> << "name", "vendor", "fields" >>, fields |-> { "invoice_number", "total" }]

\* FieldExtractor.extract_fields on a template mapping: every field of the
\* template, with value None
ExtractTemplateFields(yaml) == [ f \in yaml.fields |-> None ]

\* the number of names on the left of "tpl, tpl_path, warnings = ..."
UnpackTargets == 3

\* process(read_obj, asesoria, filename), listing being what os.listdir
\* returns inside select_template
ProcessingServiceProcess(t, listing, read_obj) ==
    IF ~CallBinds(SelectTemplateKeywords, SelectTemplateParams)
    THEN [state |-> "raised", error |-> "TypeError"]
    ELSE LET sel == SelectTemplate(t, listing)
         IN  IF sel.kind = "raised"
             THEN [state |-> "raised", error |-> "FileNotFoundError"]
             ELSE LET keys == TemplateYaml(sel.fname).keys
                  IN  \* unpacking a dict iterates its keys
                      IF Len(keys) # UnpackTargets
                      THEN [state |-> "raised", error |-> "ValueError"]
                      \* tpl is then a key, a str, and has no get()
                      ELSE [state |-> "raised", error |-> "AttributeError"]

ReadObjs == { [full_text |-> << >>], [full_text |-> << "a" >>] }

\* result = service.process(read_obj=, asesoria=, filename=)
Process ==
    /\ processed.state = "idle"
    /\ \E listing \in Listings(templates.vendor_files), read_obj \in ReadObjs :
          processed' = ProcessingServiceProcess(templates, listing, read_obj)
    /\ UNCHANGED << templates, selections >>
    /\ UNCHANGED << ingestVars, invoiceVars, pdfVars, readerVars, confVars, piiVars, fieldVars >>

NextCore == Select \/ Process

SpecCore == InitTemplate /\ [][NextCore]_vars

\* the vendor files select_template may return for the file name
Candidates(t) ==
    IF t.has_vendor_dir
    THEN { f \in t.vendor_files : IsYamlName(f) /\ MatchesTemplate(f, t.file_name) }
    ELSE { }

\* C11: select_template returns a vendor template only when the file name
\* starts, case-insensitively, with its base name, and the default template
\* otherwise; ProcessingService.process returns a record that holds the
\* identifier of the selected template and the warnings, with a warning
\* whenever the default template was selected.
C11_TripleWithWarnings ==
    /\ \A i \in DOMAIN selections :
          selections[i].kind = "template" =>
              IF Candidates(templates) = { }
              THEN selections[i].dir = DefaultTemplate.dir
              ELSE selections[i].dir = "vendor" /\ selections[i].fname \in Candidates(templates)
    /\ (processed.state # "idle" /\ templates.default_exists) =>
          /\ processed.state = "returned"
          /\ IF Candidates(templates) = { }
             THEN /\ processed.result.template = DefaultTemplate.fname
                  /\ processed.result.warnings # << >>
             ELSE processed.result.template \in Candidates(templates)

(***************************************************************************)
(* InvoiceProcessor._extract_fields.  A Python value that may be None, a   *)
(* str or a list is a record tagged with its type.  The patterns are       *)
(* evaluated as re.search and re.finditer evaluate them: leftmost start,   *)
(* greedy quantifiers, backtracking only where two classes overlap.        *)
(***************************************************************************)
PyNone == [t |-> "none"]

PyStr(s) == [t |-> "str", s |-> s]

PyList(items) == [t |-> "list", items |-> items]

\* position k of s exists and holds a character of the class
ClassAt(s, k, cls) == k >= 1 /\ k <= Len(s) /\ InClass(s[k], cls)

\* the word w stands at position i of s, letter case ignored
KeywordAt(s, i, w) ==
    /\ i >= 1
    /\ i + Len(w) - 1 <= Len(s)
    /\ Lower(Slice(s, i, i + Len(w) - 1)) = w

InvoiceKeywords == { << "i", "n", "v", "o", "i", "c", "e" >>, << "f", "a", "c", "t", "u", "r", "a" >> }

\* the length of the keyword of (?:invoice|factura) at position i, 0 if none
InvoiceKeywordLen(s, i) ==
    IF \E w \in InvoiceKeywords : KeywordAt(s, i, w)
    THEN Len(CHOOSE w \in InvoiceKeywords : KeywordAt(s, i, w))
    ELSE 0

\* (?:invoice|factura)[:\s#-]*([A-Za-z0-9/.-]+) at position i: where
\* group 1 starts, 0 when there is no match.  The separator run is greedy;
\* when no identifier character follows it, it gives back characters down
\* to its last "-", the one character both classes hold.
InvoiceGroupStart(s, i) ==
    IF InvoiceKeywordLen(s, i) = 0 THEN 0
    ELSE Bind(i + InvoiceKeywordLen(s, i), LAMBDA b :
         Bind(RunEnd(s, b, "invoice_sep"), LAMBDA r :
            IF ClassAt(s, r, "invoice_id") THEN r
            ELSE Bind({ d \in b..(r - 1) : s[d] = "-" }, LAMBDA dashes :
                    IF dashes = { } THEN 0
                    ELSE CHOOSE d \in dashes : \A e \in dashes : e <= d)))

\* the last position of the match of the invoice pattern at i, or 0
InvoiceMatchAt(s, i) ==
    Bind(InvoiceGroupStart(s, i), LAMBDA g :
        IF g = 0 THEN 0 ELSE RunEnd(s, g, "invoice_id") - 1)

\* \d{1,2} at position i, followed by a character of the class: the
\* number of digits taken, 0 when it fails
OneOrTwoDigitsThen(s, i, cls) ==
    IF ~ClassAt(s, i, "digit") THEN 0
    ELSE IF ClassAt(s, i + 1, "digit")
         THEN (IF ClassAt(s, i + 2, cls) THEN 2 ELSE 0)
         ELSE (IF ClassAt(s, i + 1, cls) THEN 1 ELSE 0)

DateYearMin == 2

DateYearMax == 4

\* (\d{1,2}[/-]\d{1,2}[/-]\d{2,4}) at position i: the positions of its
\* parts, end = 0 when there is no match
DateParts(s, i) ==
    Bind(OneOrTwoDigitsThen(s, i, "date_sep"), LAMBDA a :
        IF a = 0 THEN [end |-> 0]
        ELSE Bind(OneOrTwoDigitsThen(s, i + a + 1, "date_sep"), LAMBDA b :
            IF b = 0 THEN [end |-> 0]
            ELSE Bind(i + a + 1 + b + 1, LAMBDA y :
                 Bind(RunEnd(s, y, "digit") - y, LAMBDA run :
                    IF run < DateYearMin THEN [end |-> 0]
                    ELSE [ end   |-> y + (IF run > DateYearMax THEN DateYearMax ELSE run) - 1,
                           day   |-> Slice(s, i, i + a - 1),
                           sep1  |-> s[i + a],
                           month |-> Slice(s, i + a + 1, i + a + b),
                           sep2  |-> s[i + a + 1 + b],
                           year  |-> Slice(s, y, y + (IF run > DateYearMax THEN DateYearMax ELSE run) - 1) ]))))

DateMatchAt(s, i) == DateParts(s, i).end

DecimalDigits == 2

\* [0-9]+[,.][0-9]{2} at position i: the last position, or 0
AmountMatchAt(s, i) ==
    Bind(RunEnd(s, i, "digit"), LAMBDA dr :
        IF /\ dr > i
           /\ ClassAt(s, dr, "decimal_sep")
           /\ \A k \in 1..DecimalDigits : ClassAt(s, dr + k, "digit")
        THEN dr + DecimalDigits
        ELSE 0)

TotalKeyword == << "t", "o", "t", "a", "l" >>

\* total[:\s]*([0-9]+[,.][0-9]{2}) at position i: where group 1 starts
TotalGroupStart(s, i) ==
    IF KeywordAt(s, i, TotalKeyword)
    THEN RunEnd(s, i + Len(TotalKeyword), "colon_space")
    ELSE 0

TotalMatchAt(s, i) ==
    Bind(TotalGroupStart(s, i), LAMBDA g : IF g = 0 THEN 0 ELSE AmountMatchAt(s, g))

\* (\d{1,2})%\s*(\d+[,.]\d{2}) at position i: where group 2 starts (group
\* 1 runs from i up to the "%"), 0 when the rate does not match
VatGroup2Start(s, i) ==
    Bind(OneOrTwoDigitsThen(s, i, "percent"), LAMBDA a :
        IF a = 0 THEN 0 ELSE RunEnd(s, i + a + 1, "space"))

VatMatchAt(s, i) ==
    Bind(VatGroup2Start(s, i), LAMBDA g : IF g = 0 THEN 0 ELSE AmountMatchAt(s, g))

\* the last position of the match of a field pattern at position i, or 0
FieldMatchAt(s, kind, i) ==
    CASE kind = "invoice_number" -> InvoiceMatchAt(s, i)
      [] kind = "issue_date"     -> DateMatchAt(s, i)
      [] kind = "total"          -> TotalMatchAt(s, i)
      [] kind = "taxes"          -> VatMatchAt(s, i)

NoMatch == [start |-> 0, end |-> 0]

\* re.search(pattern, text): the leftmost match, NoMatch when there is none
ReSearch(s, kind) ==
    Bind({ k \in 1..Len(s) : FieldMatchAt(s, kind, k) # 0 }, LAMBDA starts :
        IF starts = { } THEN NoMatch
        ELSE Bind(MinOf(starts), LAMBDA k : [start |-> k, end |-> FieldMatchAt(s, kind, k)]))

RECURSIVE VatFindFrom(_, _)
\* re.finditer of the VAT pattern from position i on: each match, then the
\* scan resumes right after it
VatFindFrom(s, i) ==
    Bind({ k \in i..Len(s) : VatMatchAt(s, k) # 0 }, LAMBDA starts :
        IF starts = { } THEN << >>
        ELSE Bind(MinOf(starts), LAMBDA k :
             Bind(VatMatchAt(s, k), LAMBDA e :
                 << [start |-> k, end |-> e] >> \o VatFindFrom(s, e + 1))))

DigitSeq == << "0", "1", "2", "3", "4", "5", "6", "7", "8", "9" >>

\* int(c) of one digit
DigitVal(c) == (CHOOSE k \in DOMAIN DigitSeq : DigitSeq[k] = c) - 1

RECURSIVE ToInt(_)
\* int(ds) of a string of digits
ToInt(ds) ==
    IF ds = << >> THEN 0
    ELSE 10 * ToInt(SubSeq(ds, 1, Len(ds) - 1)) + DigitVal(ds[Len(ds)])

RECURSIVE Decimal(_)
\* str(n) of a natural number
Decimal(n) ==
    IF n < 10 THEN << DigitSeq[n + 1] >>
    ELSE Decimal(n \div 10) \o << DigitSeq[(n % 10) + 1] >>

\* n in decimal, zero-filled to the width
ZeroPad(n, width) ==
    Bind(Decimal(n), LAMBDA ds :
        IF Len(ds) >= width THEN ds ELSE [ k \in 1..(width - Len(ds)) |-> "0" ] \o ds)

\* the formats of line 285, in order: the separator and the year directive
DATE_FORMATS ==
    << [sep |-> "/", year |-> "Y"], [sep |-> "-", year |-> "Y"],
       [sep |-> "/", year |-> "y"], [sep |-> "-", year |-> "y"] >>

IsLeap(y) == (y % 4 = 0 /\ y % 100 # 0) \/ y % 400 = 0

DaysInMonth(y, m) ==
    IF m = 2 THEN (IF IsLeap(y) THEN 29 ELSE 28)
    ELSE IF m \in { 4, 6, 9, 11 } THEN 30 ELSE 31

\* %y of strptime: 00..68 are 2000..2068, 69..99 are 1969..1999
PivotYear == 68

TwoDigitYear(v) == IF v <= PivotYear THEN 2000 + v ELSE 1900 + v

\* datetime.strptime(raw_date, fmt) on the parts of the matched date: %d
\* takes 1..31 and %m 1..12, with or without a leading zero, %Y takes
\* exactly four digits and %y exactly two, year 0 and a day past the end
\* of the month raise ValueError
Strptime(p, fmt) ==
    Bind(<< ToInt(p.day), ToInt(p.month), ToInt(p.year) >>, LAMBDA v :
        IF /\ p.sep1 = fmt.sep /\ p.sep2 = fmt.sep
           /\ v[1] >= 1 /\ v[1] <= 31
           /\ v[2] >= 1 /\ v[2] <= 12
           /\ Len(p.year) = (IF fmt.year = "Y" THEN 4 ELSE 2)
           /\ (fmt.year = "Y" => v[3] >= 1)
           /\ v[1] <= DaysInMonth(IF fmt.year = "Y" THEN v[3] ELSE TwoDigitYear(v[3]), v[2])
        THEN [ raised |-> FALSE,
               year   |-> IF fmt.year = "Y" THEN v[3] ELSE TwoDigitYear(v[3]),
               month  |-> v[2],
               day    |-> v[1] ]
        ELSE [raised |-> TRUE, year |-> 0, month |-> 0, day |-> 0])

\* dt.strftime("%Y-%m-%d"): the C library fills %Y with zeros to four
\* digits or leaves it as it is, depending on the platform
Strftime(dt, pads_year) ==
    (IF pads_year THEN ZeroPad(dt.year, 4) ELSE Decimal(dt.year))
        \o << "-" >> \o ZeroPad(dt.month, 2) \o << "-" >> \o ZeroPad(dt.day, 2)

RECURSIVE ParseDate(_, _, _)
\* the loop over the formats, from format number k on: the first one that
\* parses gives the value
ParseDate(p, k, pads_year) ==
    IF k > Len(DATE_FORMATS) THEN PyNone
    ELSE Bind(Strptime(p, DATE_FORMATS[k]), LAMBDA dt :
            IF dt.raised THEN ParseDate(p, k + 1, pads_year)
            ELSE PyStr(Strftime(dt, pads_year)))

\* the characters str.splitlines() breaks a line at
LineBreaks == { "\n", "\r", "\f" }

RECURSIVE SplitLinesFrom(_, _)
\* text.splitlines() from position i on; "\r\n" is one line break
SplitLinesFrom(s, i) ==
    IF i > Len(s) THEN << >>
    ELSE Bind({ k \in i..Len(s) : s[k] \in LineBreaks }, LAMBDA breaks :
            IF breaks = { } THEN << Slice(s, i, Len(s)) >>
            ELSE Bind(MinOf(breaks), LAMBDA k :
                    << Slice(s, i, k - 1) >>
                    \o SplitLinesFrom(s, IF s[k] = "\r" /\ k + 1 <= Len(s) /\ s[k + 1] = "\n"
                                         THEN k + 2 ELSE k + 1)))

SplitLines(s) == SplitLinesFrom(s, 1)

\* re.search(r"\bw\b", line, re.IGNORECASE) finds something
HasWord(line, w) ==
    \E i \in 1..Len(line) :
        /\ KeywordAt(line, i, w)
        /\ ~ClassAt(line, i - 1, "word")
        /\ ~ClassAt(line, i + Len(w), "word")

SupplierWords == { << "n", "i", "f" >>, << "c", "i", "f" >> }

CustomerWords == { << "c", "l", "i", "e", "n", "t", "e" >> }

\* the loop over the lines for one of the two fields: the first line that
\* holds one of the words, stripped, None when no line does
FirstLineWith(lines, words) ==
    Bind({ k \in DOMAIN lines : \E w \in words : HasWord(lines[k], w) }, LAMBDA hits :
        IF hits = { } THEN PyNone ELSE PyStr(Strip(lines[MinOf(hits)])))

\* the static confidences of the rules
CONF_NONE == Float(0, 100)

CONF_INVOICE == Float(90, 100)

CONF_DATE == Float(90, 100)

CONF_PARTY == Float(60, 100)

CONF_TOTAL == Float(95, 100)

CONF_TAXES == Float(70, 100)

\* make_field with the confidence taken from the evidence: a field that
\* has evidence gets the weight handed in, or that of the date rule
MakeFieldByEvidence(value, conf, evidence) ==
    [ value      |-> value,
      confidence |-> IF evidence = << >> THEN CONF_NONE
                     ELSE IF conf = CONF_NONE THEN CONF_DATE ELSE conf,
      evidence   |-> [text |-> evidence, coords |-> None] ]

\* make_field(value, confidence, evidence)
MakeField(value, conf, evidence) ==
    [ value |-> value, confidence |-> conf, evidence |-> [text |-> evidence, coords |-> None] ]

\* the loop with "amount = vat_match.group(2)", the comma left as it is
TaxOfRawAmount(s, m) ==
    Bind(OneOrTwoDigitsThen(s, m.start, "percent"), LAMBDA a :
        [ type   |-> Slice(s, m.start, m.start + a - 1) \o << "%" >>,
          amount |-> Slice(s, VatGroup2Start(s, m.start), m.end) ])

\* the dict appended for one match of the VAT pattern
TaxOf(s, m) ==
    Bind(OneOrTwoDigitsThen(s, m.start, "percent"), LAMBDA a :
        [ type   |-> Slice(s, m.start, m.start + a - 1) \o << "%" >>,
          amount |-> StrReplace(Slice(s, VatGroup2Start(s, m.start), m.end), << "," >>, << "." >>) ])

Quote == << "'" >>

\* str(d) of one tax dict
TaxRepr(d) ==
    << "{" >> \o Quote \o << "t", "y", "p", "e" >> \o Quote \o << ":", " " >>
        \o Quote \o d.type \o Quote \o << ",", " " >>
        \o Quote \o << "a", "m", "o", "u", "n", "t" >> \o Quote \o << ":", " " >>
        \o Quote \o d.amount \o Quote \o << "}" >>

\* str(taxes) of the list
TaxesRepr(taxes) ==
    << "[" >> \o Join(<< ",", " " >>, [ k \in DOMAIN taxes |-> TaxRepr(taxes[k]) ]) \o << "]" >>

\* the value or "" : "supplier or ''"
OrEmpty(v) == IF v.t = "str" THEN v.s ELSE << >>

\* _extract_fields(text); pads_year is the platform's strftime behaviour
ExtractFields(text0, pads_year) ==
    Bind(text0, LAMBDA s :
    Bind(<< ReSearch(s, "invoice_number"), ReSearch(s, "issue_date"), ReSearch(s, "total") >>, LAMBDA m :
    Bind(SplitLines(s), LAMBDA lines :
    Bind(<< FirstLineWith(lines, SupplierWords), FirstLineWith(lines, CustomerWords) >>, LAMBDA party :
    Bind(VatFindFrom(s, 1), LAMBDA vat :
    Bind([ k \in DOMAIN vat |-> TaxOf(s, vat[k]) ], LAMBDA taxes :
        [ invoice_number |->
              IF m[1].end # 0
              THEN MakeField(PyStr(Strip(Slice(s, InvoiceGroupStart(s, m[1].start), m[1].end))),
                             CONF_INVOICE, Slice(s, m[1].start, m[1].end))
              ELSE MakeField(PyNone, CONF_NONE, << >>),
          issue_date |->
              IF m[2].end # 0
              THEN Bind(ParseDate(DateParts(s, m[2].start), 1, pads_year), LAMBDA date_value :
                       MakeField(date_value,
                                 IF date_value = PyNone THEN CONF_NONE ELSE CONF_DATE,
                                 Slice(s, m[2].start, m[2].end)))
              ELSE MakeField(PyNone, CONF_NONE, << >>),
          supplier |->
              MakeField(party[1], IF party[1] = PyNone THEN CONF_NONE ELSE CONF_PARTY, OrEmpty(party[1])),
          customer |->
              MakeField(party[2], IF party[2] = PyNone THEN CONF_NONE ELSE CONF_PARTY, OrEmpty(party[2])),
          total |->
              IF m[3].end # 0
              THEN MakeField(PyStr(StrReplace(Slice(s, TotalGroupStart(s, m[3].start), m[3].end),
                                              << "," >>, << "." >>)),
                             CONF_TOTAL, Slice(s, m[3].start, m[3].end))
              ELSE MakeField(PyNone, CONF_NONE, << >>),
          taxes |->
              MakeField(IF taxes # << >> THEN PyList(taxes) ELSE PyNone,
                        IF taxes # << >> THEN CONF_TAXES ELSE CONF_NONE,
                        TaxesRepr(taxes)),
          products |-> MakeField(PyNone, CONF_NONE, << >>) ]))))))

(***************************************************************************)
(* _extract_fields on its own: a text goes through the extraction.         *)
(***************************************************************************)
MaxFieldPieces == 3

\* the texts are made of at most MaxFieldPieces of these pieces
FieldPieces ==
    { << "T", "o", "t", "a", "l", ":", " " >>,
      << "1", ".", "2", "3", "4", ",", "5", "6" >>,
      << "1", "2", "3", "4", ",", "5", "6" >>,
      << "2", "1", "%", " ", "1", "0", "0", ",", "0", "0" >>,
      << "1", "0", "%", " ", "5", "0", ",", "0", "0" >>,
      << "\n" >>,
      << "0", "3", "/", "0", "5", "/", "2", "0", "2", "4" >>,
      << "0", "3", "/", "0", "5", "/", "0", "9", "9", "9" >>,
      << "3", "1", "-", "0", "4", "-", "2", "4" >>,
      << "3", "-", "5", "/", "2", "4" >>,
      << "f", "a", "c", "t", "u", "r", "a", " ", "F", "-", "1" >>,
      << "N", "I", "F", " ", "B", "1" >>,
      << "c", "l", "i", "e", "n", "t", "e" >> }

FieldTexts ==
    { Concat(ps) : ps \in UNION { [1..n -> FieldPieces] : n \in 0..MaxFieldPieces } }

InitFields ==
    /\ field_text \in FieldTexts
    /\ inferred = [state |-> "idle"]
    /\ IngestIdle /\ InvoiceIdle /\ PdfIdle /\ ReaderIdle /\ ConfIdle /\ TplIdle /\ PiiIdle /\ CoreIdle

\* inferred_fields = self._extract_fields(full_text)
Extract ==
    /\ inferred.state = "idle"
    /\ \E pads_year \in BOOLEAN :
          inferred' = [state |-> "returned", fields |-> ExtractFields(field_text, pads_year)]
    /\ UNCHANGED field_text
    /\ UNCHANGED << ingestVars, invoiceVars, pdfVars, readerVars, confVars, tplVars, piiVars, coreVars >>

NextFields == Extract

SpecFields == InitFields /\ [][NextFields]_vars

Extracted == inferred.state = "returned"

\* the fields of the rule set
RuleFields ==
    { "invoice_number", "issue_date", "supplier", "customer", "total", "taxes", "products" }

\* the rule of the field finds nothing in the text
Unmatched(s, f) ==
    CASE f \in { "invoice_number", "issue_date", "total" } -> ReSearch(s, f) = NoMatch
      [] f = "taxes"    -> \A k \in 1..Len(s) : VatMatchAt(s, k) = 0
      [] f = "supplier" -> \A k \in DOMAIN SplitLines(s) :
                               \A w \in SupplierWords : ~HasWord(SplitLines(s)[k], w)
      [] f = "customer" -> \A k \in DOMAIN SplitLines(s) :
                               \A w \in CustomerWords : ~HasWord(SplitLines(s)[k], w)
      [] f = "products" -> TRUE

\* C12: the field mapping holds every field of the rule set whatever the
\* text, and a field whose rule finds nothing has value null, confidence
\* 0.0 and the empty evidence text.
C12_StableFieldSet ==
    Extracted =>
        /\ DOMAIN inferred.fields = RuleFields
        /\ \A f \in RuleFields :
              Unmatched(field_text, f) =>
                  /\ inferred.fields[f].value = PyNone
                  /\ inferred.fields[f].confidence.num = 0
                  /\ inferred.fields[f].evidence.text = << >>

\* the amount as printed after the total keyword of the match at position i
PrintedTotal(s, i) ==
    Slice(s, TotalGroupStart(s, i), RunEnd(s, TotalGroupStart(s, i), "amount") - 1)

\* digits, with "." between groups of digits, then "," and two digits
CommaDecimal(a) ==
    /\ Len(a) >= 4
    /\ a[Len(a) - 2] = ","
    /\ a[1] \in DigitChars
    /\ \A k \in (DOMAIN a) \ { Len(a) - 2 } : a[k] \in DigitChars \cup { "." }
    /\ a[Len(a)] \in DigitChars /\ a[Len(a) - 1] \in DigitChars /\ a[Len(a) - 3] \in DigitChars

\* the digits of the amount, with a dot before the last two
DotDecimal(a) ==
    SelectSeq(SubSeq(a, 1, Len(a) - 3), LAMBDA c : c \in DigitChars)
        \o << "." >> \o SubSeq(a, Len(a) - 1, Len(a))

\* C14: a total printed with a comma decimal separator, with or without
\* dots between the thousands, is returned with all its digits and a dot
\* decimal separator.
C14_AmountNormalized ==
    Extracted =>
        LET m == ReSearch(field_text, "total")
        IN  (m # NoMatch /\ CommaDecimal(PrintedTotal(field_text, m.start))) =>
                inferred.fields.total.value = PyStr(DotDecimal(PrintedTotal(field_text, m.start)))

\* the position of the "%" of the VAT match m
PercentOf(s, m) == CHOOSE q \in m.start..m.end : s[q] = "%"

\* the amount the VAT match m ends with, as printed
PrintedVatAmount(s, m) ==
    LET first == CHOOSE q \in (PercentOf(s, m) + 1)..m.end :
                     \A r \in q..m.end : s[r] \in DigitChars \cup { ",", "." }
                     /\ (q = PercentOf(s, m) + 1 \/ s[q - 1] \in SpaceChars)
    IN  SubSeq(s, first, m.end)

\* two tax lines, the second on the next line
TwoTaxLines ==
    << "2", "1", "%", " ", "1", "0", "0", ",", "0", "0", "\n",
       "1", "0", "%", " ", "5", "0", ",", "0", "0" >>

TwoTaxes ==
    << [type |-> << "2", "1", "%" >>, amount |-> << "1", "0", "0", ".", "0", "0" >>],
       [type |-> << "1", "0", "%" >>, amount |-> << "5", "0", ".", "0", "0" >>] >>

\* C15: the taxes value is null when the text holds no rate/amount match;
\* otherwise it is the list of the matches, which do not overlap and cover
\* every place where a match starts, one {type, amount} pair per match in
\* document order, the type being the rate with its %, the amount being the
\* printed amount with its comma turned into a dot.
C15_TaxesInDocumentOrder ==
    Extracted =>
        LET s  == field_text
            ms == VatFindFrom(s, 1)
            v  == inferred.fields.taxes.value
        IN  /\ (v = PyNone) <=> (\A k \in 1..Len(s) : VatMatchAt(s, k) = 0)
            /\ v # PyNone =>
                  /\ v.t = "list"
                  /\ Len(v.items) = Len(ms)
                  /\ \A j \in 1..(Len(ms) - 1) : ms[j].end < ms[j + 1].start
                  /\ \A k \in 1..Len(s) :
                        VatMatchAt(s, k) # 0 =>
                            \E j \in DOMAIN ms : ms[j].start <= k /\ k <= ms[j].end
                  /\ \A j \in DOMAIN ms :
                        LET item == v.items[j]
                            raw  == PrintedVatAmount(s, ms[j])
                        IN  /\ DOMAIN item = { "type", "amount" }
                            /\ item.type = SubSeq(s, ms[j].start, PercentOf(s, ms[j]))
                            /\ item.amount = [ k \in DOMAIN raw |-> IF raw[k] = "," THEN "." ELSE raw[k] ]
            /\ s = TwoTaxLines => v = PyList(TwoTaxes)

\* C15 witness: the extraction returned two or more taxes, one of them
\* printed with a comma.
C15_Witness ==
    /\ Extracted
    /\ inferred.fields.taxes.value.t = "list"
    /\ Len(inferred.fields.taxes.value.items) >= 2
    /\ \E j \in DOMAIN VatFindFrom(field_text, 1) :
          "," \in Range(PrintedVatAmount(field_text, VatFindFrom(field_text, 1)[j]))

\* v is YYYY-MM-DD and spells the date dt
IsIsoDate(v, dt) ==
    /\ Len(v) = 10
    /\ v[5] = "-" /\ v[8] = "-"
    /\ \A k \in { 1, 2, 3, 4, 6, 7, 9, 10 } : v[k] \in DigitChars
    /\ ToInt(SubSeq(v, 1, 4)) = dt.year
    /\ ToInt(SubSeq(v, 6, 7)) = dt.month
    /\ ToInt(SubSeq(v, 9, 10)) = dt.day

\* the formats that parse the date parts p, by their place in the list
ParsingFormats(p) == { k \in DOMAIN DATE_FORMATS : ~Strptime(p, DATE_FORMATS[k]).raised }

\* C16: the leftmost date-like match is parsed with the formats in order;
\* the first format that parses gives the value, in YYYY-MM-DD form; with
\* no match, or no format that parses, the value is null and the
\* confidence 0.0.
C16_DateNormalized ==
    Extracted =>
        LET m == ReSearch(field_text, "issue_date")
            f == inferred.fields.issue_date
        IN  IF m = NoMatch \/ ParsingFormats(DateParts(field_text, m.start)) = { }
            THEN f.value = PyNone /\ f.confidence.num = 0
            ELSE LET p  == DateParts(field_text, m.start)
                     dt == Strptime(p, DATE_FORMATS[MinOf(ParsingFormats(p))])
                 IN  /\ f.value.t = "str"
                     /\ IsIsoDate(f.value.s, dt)

\* From the year 1000 on the date value is in YYYY-MM-DD form.
DateNormalizedFromYear1000 ==
    Extracted =>
        LET m == ReSearch(field_text, "issue_date")
            f == inferred.fields.issue_date
        IN  (m # NoMatch /\ ParsingFormats(DateParts(field_text, m.start)) # { }) =>
                LET p  == DateParts(field_text, m.start)
                    dt == Strptime(p, DATE_FORMATS[MinOf(ParsingFormats(p))])
                IN  dt.year >= 1000 => (f.value.t = "str" /\ IsIsoDate(f.value.s, dt))

\* the static weight of each rule, in hundredths
RuleWeightPct ==
    [ invoice_number |-> 90, issue_date |-> 90, supplier |-> 60, customer |-> 60,
      total |-> 95, taxes |-> 70, products |-> 0 ]

\* C18: every field's confidence is within [0, 1], is 0.0 exactly when the
\* value is null, and is the static weight of the field's rule when the
\* value is not null.
C18_ConfidenceStatic ==
    Extracted =>
        \A f \in DOMAIN inferred.fields :
            LET c == inferred.fields[f].confidence
                v == inferred.fields[f].value
            IN  /\ c.den > 0 /\ 0 <= c.num /\ c.num <= c.den
                /\ (c.num = 0) <=> (v = PyNone)
                /\ v # PyNone => c.num * 100 = RuleWeightPct[f] * c.den

\* C18 witness: the extraction returned a field with a value and a date
\* field whose match no format parses, null with its evidence.
C18_Witness ==
    /\ Extracted
    /\ \E f \in DOMAIN inferred.fields : inferred.fields[f].value # PyNone
    /\ inferred.fields.issue_date.value = PyNone
    /\ inferred.fields.issue_date.evidence.text # << >>

(***************************************************************************)
(* Documents.  A page is the text PyMuPDF extracts from it (native), the   *)
(* texts of its layout blocks, and what the OCR engine makes of its image: *)
(* a text, or an exception.  A document that is no valid PDF cannot be     *)
(* opened.                                                                 *)
(***************************************************************************)
TEXT_THRESHOLD == 200

\* a text of n characters that holds an e-mail address
NativeText(n) == << "a", "@", "b", " " >> \o Chars("-", n - 4)

NativeTexts ==
    { << >>,
      << "a", "@", "b" >>,
      NativeText(TEXT_THRESHOLD - 1),
      NativeText(TEXT_THRESHOLD),
      << " " >> \o NativeText(TEXT_THRESHOLD - 1) \o << "\n" >>,
      << "\n" >> \o NativeText(TEXT_THRESHOLD) \o << " " >> }

OcrTexts == { << >>, << " ", "A", "A", "1", "1", "A", "@", "A", "\n" >> }

Page(native, ocr, fails) ==
    [ native    |-> native,
      blocks    |-> IF native = << >> THEN << >> ELSE << native >>,
      ocr       |-> ocr,
      ocr_fails |-> fails ]

Pages ==
    { Page(n, o, FALSE) : n \in NativeTexts, o \in OcrTexts }
    \cup { Page(n, << >>, TRUE) : n \in NativeTexts }

CorruptDoc == [valid |-> FALSE, pages |-> << >>]

(***************************************************************************)
(* PDFReader.read with PyMuPDFReader and PyTesseractReader.                *)
(***************************************************************************)
Newline == << "\n" >>

RECURSIVE TextOfPages(_, _, _)
\* full_text += <text of the page> + "\n", for the pages i..
TextOfPages(pages, field, i) ==
    IF i > Len(pages) THEN << >>
    ELSE (IF field = "native" THEN pages[i].native ELSE pages[i].ocr)
         \o Newline \o TextOfPages(pages, field, i + 1)

RECURSIVE BlocksOfPages(_, _)
\* the blocks of the pages i.., in page order
BlocksOfPages(pages, i) ==
    IF i > Len(pages) THEN << >>
    ELSE [ k \in DOMAIN pages[i].blocks |-> [text |-> pages[i].blocks[k]] ]
         \o BlocksOfPages(pages, i + 1)

\* PyMuPDFReader.read: the native text and blocks of every page; nothing
\* when PyMuPDF is not installed; raises when the file cannot be opened
TextReaderRead(d, env) ==
    IF ~env.fitz THEN [raised |-> FALSE, text |-> << >>, blocks |-> << >>, ocr_pages |-> { }]
    ELSE IF ~d.valid THEN [raised |-> TRUE, text |-> << >>, blocks |-> << >>, ocr_pages |-> { }]
    ELSE [ raised    |-> FALSE,
           text      |-> TextOfPages(d.pages, "native", 1),
           blocks    |-> BlocksOfPages(d.pages, 1),
           ocr_pages |-> { } ]

\* PyTesseractReader.read: the OCR text of every page and no blocks;
\* nothing when a package is missing; raises when the file cannot be
\* opened or the engine fails on a page.  ocr_pages are the pages whose
\* image went to the engine.
OcrReaderRead(d, env) ==
    IF ~(env.fitz /\ env.tesseract)
    THEN [raised |-> FALSE, text |-> << >>, blocks |-> << >>, ocr_pages |-> { }]
    ELSE IF ~d.valid THEN [raised |-> TRUE, text |-> << >>, blocks |-> << >>, ocr_pages |-> { }]
    ELSE LET failing == { n \in DOMAIN d.pages : d.pages[n].ocr_fails }
         IN  IF failing # { }
             THEN [ raised |-> TRUE, text |-> << >>, blocks |-> << >>,
                    ocr_pages |-> 1..MinOf(failing) ]
             ELSE [ raised |-> FALSE,
                    text   |-> TextOfPages(d.pages, "ocr", 1),
                    blocks |-> << >>,
                    ocr_pages |-> DOMAIN d.pages ]

\* the body of the for loop of PDFReader.read for one file
ReadOneFile(d, force_ocr, env) ==
    IF ~force_ocr
    THEN LET simple == TextReaderRead(d, env)
         IN  IF simple.raised THEN OcrReaderRead(d, env) ELSE simple
    ELSE OcrReaderRead(d, env)

RECURSIVE ReadLoop(_, _, _)
\* PDFReader.read over pdf_files[i..], acc being what the loop has built
ReadLoop(r, i, acc) ==
    IF i > Len(r.pdf_files) THEN acc
    ELSE LET path == r.pdf_files[i]
             one  == ReadOneFile(r.fs[path], r.force_ocr, r.env)
             seen == acc.ocr_pages \cup { << path, n >> : n \in one.ocr_pages }
         IN  IF one.raised
             THEN [state |-> "raised", results |-> << >>, ocr_pages |-> seen]
             ELSE ReadLoop(r, i + 1,
                    [ state     |-> "returned",
                      results   |-> [ q \in (DOMAIN acc.results) \cup { path } |->
                                        IF q = path THEN [text |-> one.text, blocks |-> one.blocks]
                                        ELSE acc.results[q] ],
                      ocr_pages |-> seen ])

\* PDFReader(force_ocr).read(pdf_files)
ReaderRead(r) ==
    ReadLoop(r, 1, [state |-> "returned", results |-> << >>, ocr_pages |-> { }])

MaxPaths == 2

PathNames == << "a.pdf", "b.pdf", "c.pdf", "d.pdf" >>

Paths == { PathNames[i] : i \in 1..MaxPaths }

ReaderPages ==
    { Page(<< >>, << "A", "@", "A" >>, FALSE),
      Page(NativeText(TEXT_THRESHOLD), << >>, FALSE),
      Page(<< >>, << >>, TRUE) }

ReaderDocs ==
    { CorruptDoc }
    \cup { [valid |-> TRUE, pages |-> ps] : ps \in UNION { [1..n -> ReaderPages] : n \in 1..2 } }

InitReader ==
    /\ reader \in [ force_ocr : BOOLEAN,
                    env       : [fitz : BOOLEAN, tesseract : BOOLEAN],
                    fs        : [Paths -> ReaderDocs],
                    pdf_files : UNION { [1..n -> Paths] : n \in 0..MaxPaths } ]
    /\ read_out = [state |-> "idle"]
    /\ IngestIdle /\ InvoiceIdle /\ PdfIdle /\ ConfIdle /\ TplIdle /\ PiiIdle /\ CoreIdle /\ FieldIdle

\* results = reader.read(pdf_files)
Read ==
    /\ read_out.state = "idle"
    /\ read_out' = ReaderRead(reader)
    /\ UNCHANGED reader
    /\ UNCHANGED << ingestVars, invoiceVars, pdfVars, confVars, tplVars, piiVars, coreVars, fieldVars >>

NextReader == Read

SpecReader == InitReader /\ [][NextReader]_vars

\* the page needs OCR: the flag is set or its trimmed native text is
\* shorter than the threshold
NeedsOcr(page, force) == force \/ Len(Strip(page.native)) < TEXT_THRESHOLD

\* C1: every page of every document read goes through OCR exactly when the
\* force-OCR flag is set or its trimmed native text is shorter than
\* TEXT_THRESHOLD characters (stated for a runtime with PyMuPDF and the OCR
\* engine installed).
C1_OcrIffForcedOrShort ==
    (read_out.state = "returned" /\ reader.env.fitz /\ reader.env.tesseract) =>
        \A path \in DOMAIN read_out.results :
            \A n \in DOMAIN reader.fs[path].pages :
                (<< path, n >> \in read_out.ocr_pages)
                    <=> NeedsOcr(reader.fs[path].pages[n], reader.force_ocr)

(***************************************************************************)
(* InvoiceProcessor.process_invoice.                                       *)
(***************************************************************************)
\* _run_ocr_on_page: the text and the number of page images returned
RunOcrOnPage(page, tess) ==
    IF ~tess THEN [text |-> << >>, images |-> 0]
    ELSE [ text   |-> Strip(IF page.ocr_fails THEN << >> ELSE page.ocr),
           images |-> 1 ]

\* _extract_text_blocks
ExtractTextBlocks(page) ==
    [ k \in DOMAIN page.blocks |-> [text |-> Strip(page.blocks[k]), coords |-> << 0, 0, 1, 1 >>] ]

\* use_ocr of line 89
UseOcr(page, p) == p.ocr_force \/ Len(Strip(page.native)) < TEXT_THRESHOLD

\* the page loop's body numbering the pages from 0, as range() counts them
PageStepZeroBased(acc, page, n, p, tess) ==
    LET page_text == IF UseOcr(page, p) THEN RunOcrOnPage(page, tess).text ELSE Strip(page.native)
    IN  [ scanned |-> acc.scanned + (IF UseOcr(page, p) THEN 1 ELSE 0),
          parts   |-> Append(acc.parts, page_text),
          pages   |-> Append(acc.pages, [number |-> n - 1, text |-> page_text, blocks |-> << >>]),
          images  |-> acc.images ]

\* the body of the page loop for page number n, acc being the lists and the
\* counter the loop has built so far
PageStep(acc, page, n, p, tess) ==
    IF UseOcr(page, p)
    THEN LET ocr    == RunOcrOnPage(page, tess)
             blocks == IF p.return_layout
                       THEN << [text |-> ocr.text, coords |-> << 0, 0, 0, 0 >>, confidence |-> None] >>
                       ELSE << >>
         IN  [ scanned |-> acc.scanned + 1,
               parts   |-> Append(acc.parts, ocr.text),
               pages   |-> Append(acc.pages, [number |-> n, text |-> ocr.text, blocks |-> blocks]),
               images  |-> acc.images \o [ k \in 1..ocr.images |-> [page |-> n, index |-> k - 1] ] ]
    ELSE LET native_text == Strip(page.native)
             blocks == IF p.return_layout THEN ExtractTextBlocks(page) ELSE << >>
         IN  [ scanned |-> acc.scanned,
               parts   |-> Append(acc.parts, native_text),
               pages   |-> Append(acc.pages, [number |-> n, text |-> native_text, blocks |-> blocks]),
               images  |-> acc.images ]

RECURSIVE PageLoop(_, _, _, _, _)
\* for page_number in range(pages_count), from page n on
PageLoop(acc, d, n, p, tess) ==
    IF n > Len(d.pages) THEN acc
    ELSE Bind(PageStep(acc, d.pages[n], n, p, tess), LAMBDA next :
             PageLoop(next, d, n + 1, p, tess))

\* process_invoice(file_bytes, filename, params): raises when the PDF
\* cannot be opened, else returns the result dict (its hash and PDF
\* properties are left out here, the document being taken to provide the
\* attributes _extract_pdf_metadata reads); pads_year is the platform's
\* strftime
ProcessInvoice(d, filename, p, tess, pads_year) ==
    IF ~d.valid THEN [raised |-> TRUE]
    ELSE Bind(PageLoop([scanned |-> 0, parts |-> << >>, pages |-> << >>, images |-> << >>],
                       d, 1, p, tess), LAMBDA acc :
         Bind(Join(Newline, acc.parts), LAMBDA full_text :
         Bind(IF p.redact_pii THEN RedactPII(full_text)
              ELSE [text |-> full_text, entities |-> << >>], LAMBDA red :
         Bind(ExtractFields(full_text, pads_year), LAMBDA inferred_fields :
         LET base == [ file_name   |-> filename,
                       pages_count |-> Len(d.pages),
                       text_full   |-> red.text,
                       pages       |-> acc.pages,
                       tables      |-> << >>,
                       images      |-> acc.images,
                       inferred_fields |-> inferred_fields,
                       diagnostics |-> [ pages_count     |-> Len(d.pages),
                                         scanned_pages   |-> acc.scanned,
                                         ocr_engine_used |-> IF tess THEN "tesseract" ELSE None ] ]
         IN  [ raised |-> FALSE,
               result |-> IF p.redact_pii THEN base @@ [entities |-> red.entities] ELSE base ]))))

MaxPages == 2

InvoiceDocs ==
    { CorruptDoc }
    \cup { [valid |-> TRUE, pages |-> ps] : ps \in UNION { [1..n -> Pages] : n \in 0..MaxPages } }

ParamsSet ==
    [ language_hint : { None, "es" }, return_layout : BOOLEAN, return_tables : { FALSE },
      ocr_force : BOOLEAN, ocr_engine : { "auto" }, redact_pii : BOOLEAN ]

InitInvoice ==
    /\ doc \in InvoiceDocs
    /\ params \in ParamsSet
    /\ pytesseract \in BOOLEAN
    /\ outcome = [state |-> "idle"]
    /\ files = << >> /\ results = << >> /\ calls = << >>
    /\ response = NoResponse /\ pc = "idle"
    /\ PdfIdle /\ ReaderIdle /\ ConfIdle /\ TplIdle /\ PiiIdle /\ CoreIdle /\ FieldIdle

\* result = processor.process_invoice(content, filename, params)
ProcessDocument ==
    /\ outcome.state = "idle"
    /\ \E pads_year \in BOOLEAN :
          \E r \in { ProcessInvoice(doc, "invoice.pdf", params, pytesseract, pads_year) } :
              outcome' = IF r.raised THEN [state |-> "raised"]
                         ELSE [state |-> "returned", result |-> r.result]
    /\ UNCHANGED << doc, files, params, pytesseract, results, calls, response, pc >>
    /\ UNCHANGED << pdfVars, readerVars, confVars, tplVars, piiVars, coreVars, fieldVars >>

NextInvoice == ProcessDocument

SpecInvoice == InitInvoice /\ [][NextInvoice]_vars

\* a page the OCR step of which yields nothing although the page went
\* through it: the engine raised, or no engine is installed
Degraded(page, p, tess) == UseOcr(page, p) /\ (~tess \/ page.ocr_fails)

\* the same document read by an installed engine that raises nowhere and
\* finds no text on the pages where it failed
OcrFoundNothing(d) ==
    [ valid |-> d.valid,
      pages |-> [ n \in DOMAIN d.pages |->
                    IF d.pages[n].ocr_fails THEN Page(d.pages[n].native, << >>, FALSE)
                    ELSE d.pages[n] ] ]

\* C13: an OCR failure on a page never aborts the document: the page gets
\* empty text, every page is in the returned result, and the diagnostics
\* of the result differ from those of the same document on whose failing
\* pages OCR ran and found no text.
C13_OcrFailureFlagged ==
    (outcome.state # "idle" /\ doc.valid
        /\ \E n \in DOMAIN doc.pages : Degraded(doc.pages[n], params, pytesseract)) =>
        /\ outcome.state = "returned"
        /\ Len(outcome.result.pages) = Len(doc.pages)
        /\ \A n \in DOMAIN doc.pages :
               Degraded(doc.pages[n], params, pytesseract) => outcome.result.pages[n].text = << >>
        /\ outcome.result.diagnostics #
               ProcessInvoice(OcrFoundNothing(doc), "invoice.pdf", params, TRUE, FALSE).result.diagnostics

\* C17: for every document processed, the pages list has pages_count
\* entries numbered 1..pages_count in increasing order, and without
\* redaction text_full is the texts of those pages joined with "\n" in
\* page-number order.
C17_PagesNumberedAndJoined ==
    outcome.state = "returned" =>
        LET r == outcome.result
        IN  /\ r.pages_count = Len(doc.pages)
            /\ Len(r.pages) = r.pages_count
            /\ \A n \in DOMAIN r.pages : r.pages[n].number = n
            /\ ~params.redact_pii =>
                   r.text_full = Join(Newline, [ n \in DOMAIN r.pages |-> r.pages[n].text ])

\* C17 witness: a document of two pages of different non-empty texts was
\* processed without redaction.
C17_Witness ==
    /\ outcome.state = "returned"
    /\ ~params.redact_pii
    /\ Len(outcome.result.pages) = 2
    /\ outcome.result.pages[1].text # << >>
    /\ outcome.result.pages[2].text # << >>
    /\ outcome.result.pages[1].text # outcome.result.pages[2].text

\* the texts of a field of the result: its value and its evidence
FieldTextsOf(field) ==
    { field.evidence.text }
    \cup (IF field.value.t = "str" THEN { field.value.s }
          ELSE IF field.value.t = "list"
               THEN UNION { { field.value.items[k].type, field.value.items[k].amount } :
                            k \in DOMAIN field.value.items }
               ELSE { })

\* every text the returned record carries
ResultTexts(r) ==
    { r.text_full }
    \cup { r.pages[n].text : n \in DOMAIN r.pages }
    \cup UNION { { r.pages[n].blocks[k].text : k \in DOMAIN r.pages[n].blocks } : n \in DOMAIN r.pages }
    \cup UNION { FieldTextsOf(r.inferred_fields[f]) : f \in DOMAIN r.inferred_fields }

\* C19: when redaction is requested, no value of a reported entity occurs
\* in text_full, in any page's text or blocks, or in any field's value or
\* evidence of the returned record.
C19_NoEntityValueUnmasked ==
    (outcome.state = "returned" /\ params.redact_pii) =>
        \A k \in DOMAIN outcome.result.entities :
            \A t \in ResultTexts(outcome.result) :
                ~Contains(t, outcome.result.entities[k].value)

(***************************************************************************)
(* POST /ingest.  The handler awaits every upload in turn, so its loop is  *)
(* one step per upload.                                                    *)
(***************************************************************************)
INGEST_CONTENT_TYPES == { "application/pdf", "application/octet-stream" }

MaxFiles == 3

NativeDoc == [valid |-> TRUE, pages |-> << Page(NativeText(TEXT_THRESHOLD), << >>, FALSE) >>]

MixedDoc ==
    [ valid |-> TRUE,
      pages |-> << Page(<< >>, << "A", "A", "1", "1", "A", "@", "A" >>, FALSE),
                   Page(NativeText(TEXT_THRESHOLD), << >>, FALSE) >> ]

IngestDocs == { CorruptDoc, NativeDoc, MixedDoc }

IngestUploads == [ content_type : ContentTypes, doc : IngestDocs ]

IngestParams ==
    [ language_hint : { None }, return_layout : { FALSE }, return_tables : { FALSE },
      ocr_force : BOOLEAN, ocr_engine : { "auto" }, redact_pii : BOOLEAN ]

Init ==
    /\ files \in UNION { [1..n -> IngestUploads] : n \in 0..MaxFiles }
    /\ params \in IngestParams
    /\ pytesseract = TRUE
    /\ results = << >>
    /\ calls = << >>
    /\ response = NoResponse
    /\ pc = "recv"
    /\ InvoiceIdle /\ PdfIdle /\ ReaderIdle /\ ConfIdle /\ TplIdle /\ PiiIdle /\ CoreIdle /\ FieldIdle

\* lines 93-110: no files is a 400, else the loop starts
IngestReceive ==
    /\ pc = "recv"
    /\ IF files = << >>
       THEN /\ response' = [status |-> 400, detail |-> "No files were provided for ingestion"]
            /\ pc' = "done"
       ELSE /\ response' = response
            /\ pc' = "loop"
    /\ UNCHANGED << files, params, pytesseract, results, calls >>
    /\ UNCHANGED << invoiceVars, pdfVars, readerVars, confVars, tplVars, piiVars, coreVars, fieldVars >>

\* lines 113-131: one iteration of the loop, for upload number i
IngestFile ==
    /\ pc = "loop"
    /\ Len(results) < Len(files)
    /\ LET i == Len(results) + 1
           upload == files[i]
       IN  IF upload.content_type \notin INGEST_CONTENT_TYPES
           THEN /\ response' = [status |-> 400, detail |-> "Unsupported content type"]
                /\ pc' = "done"
                /\ UNCHANGED << results, calls >>
           ELSE \E pads_year \in BOOLEAN :
                \E r \in { ProcessInvoice(upload.doc, i, params, pytesseract, pads_year) } :
                    /\ calls' = Append(calls, i)
                    /\ results' = Append(results,
                                    IF r.raised THEN [file_name |-> i, error |-> "str(exc)"]
                                    ELSE r.result)
                    /\ UNCHANGED << response, pc >>
    /\ UNCHANGED << files, params, pytesseract >>
    /\ UNCHANGED << invoiceVars, pdfVars, readerVars, confVars, tplVars, piiVars, coreVars, fieldVars >>

\* line 133: return JSONResponse(results)
IngestReturn ==
    /\ pc = "loop"
    /\ Len(results) = Len(files)
    /\ response' = [status |-> 200, body |-> results]
    /\ pc' = "done"
    /\ UNCHANGED << files, params, pytesseract, results, calls >>
    /\ UNCHANGED << invoiceVars, pdfVars, readerVars, confVars, tplVars, piiVars, coreVars, fieldVars >>

Next == IngestReceive \/ IngestFile \/ IngestReturn

Spec == Init /\ [][Next]_vars

\* C3: when the request is rejected for an unsupported content type, no
\* upload of that request was handed to process_invoice before.
C3_RejectedBeforeCore ==
    (response.status = 400 /\ files # << >>) => calls = << >>

\* On /ingest a response of status 200 is aligned with the uploads: one
\* entry per upload, in order; a corrupt upload's entry holds its file name
\* and an error only, every other entry is the result of its document.
IngestBatchAligned ==
    response.status = 200 =>
        /\ Len(response.body) = Len(files)
        /\ \A i \in DOMAIN files :
              LET entry == response.body[i]
              IN  /\ entry.file_name = i
                  /\ IF files[i].doc.valid
                     THEN /\ "error" \notin DOMAIN entry
                          /\ entry.pages_count = Len(files[i].doc.pages)
                     ELSE DOMAIN entry = { "file_name", "error" }

\* In a result of process_invoice a page holds the OCR text exactly when
\* the flag is set or its trimmed native text is shorter than
\* TEXT_THRESHOLD, and scanned_pages counts exactly those pages.
InvoiceOcrIffForcedOrShort ==
    outcome.state = "returned" =>
        LET r == outcome.result
            ocr_pages == { n \in DOMAIN doc.pages : NeedsOcr(doc.pages[n], params.ocr_force) }
        IN  /\ r.diagnostics.scanned_pages = Cardinality(ocr_pages)
            /\ \A n \in DOMAIN doc.pages :
                  r.pages[n].text =
                      IF n \in ocr_pages
                      THEN (IF pytesseract /\ ~doc.pages[n].ocr_fails
                            THEN Strip(doc.pages[n].ocr) ELSE << >>)
                      ELSE Strip(doc.pages[n].native)

=============================================================================
